---- MODULE Spec2Model ----
(***************************************************************************)
(* Model of the jitter ticker of src/jitter.go: NewTicker, the background  *)
(* goroutine Ticker.tick with Ticker.sleep, Ticker.Stop, and a consumer    *)
(* receiving from Ticker.C.                                                *)
(*                                                                         *)
(* time.Duration is a signed 64-bit integer; it is modelled as a signed    *)
(* integer of DurationBits bits, so that the addition interval + delay in  *)
(* Ticker.sleep wraps as it does in Go.  The clock is a natural number     *)
(* that only Ticker.sleep advances.                                        *)
(***************************************************************************)
EXTENDS Integers, Sequences, FiniteSets, TLC

\* ------------------------------------------------------------------ bounds

\* Width of the modelled time.Duration (int64 in Go, scaled down).
DurationBits == 4

\* The clock stops the model at this reading (guard of Sleep).
MaxTime == 8

\* History counters saturate at this value.
MaxCount == 3

\* Largest clock reading at which a ticker of the pair is constructed.
MaxClock == 2

\* Delays drawn by each ticker of the pair.
MaxDraws == 3

\* ------------------------------------------------------- program constants

\* make(chan time.Time, 1): the capacity of the tick channel.
ChanCap == 1

\* --------------------------------------------------------------- durations

Modulus == 2 ^ DurationBits

MaxDuration == (2 ^ (DurationBits - 1)) - 1

MinDuration == -(2 ^ (DurationBits - 1))

\* Two's complement wrap of a Duration sum.
Wrap(x) == ((x - MinDuration) % Modulus) + MinDuration

\* The intervals and jitters NewTicker is called with.
Intervals == {MinDuration, -1, 0, 1, 2, MaxDuration}

Jitters == {-1, 0, 1, 2}

Min(a, b) == IF a < b THEN a ELSE b

Bump(n) == Min(n + 1, MaxCount)

VARIABLES
    ctor,          \* NewTicker: "idle" (not called), "ok" (returned), "panic"
    args,          \* the arguments NewTicker was called with, <<interval, jitter>>
    allocated,     \* the channels c and stop have been made
    interval,      \* Ticker.interval
    jitter,        \* Ticker.jitter
    C,             \* content of the buffered channel Ticker.C (oldest first)
    stop,          \* TRUE when the channel Ticker.stop is closed
    pc,            \* the goroutine tick: "none", "sleep", "select", "done"
    now,           \* the clock, time.Now()
    slept,         \* time the last completed Ticker.sleep took
    got,           \* <<>> or the one timestamp the consumer received last
    prev,          \* the value of got before the consumer's latest receive
    closedC,       \* TRUE when the channel Ticker.C is closed
    pair,          \* two tickers made with the same arguments (SpecPair)
    firstAttempt,  \* timestamp of the first send attempted since the slot was last empty
    lastAttempt,   \* timestamp of the latest send attempted
    attempts,      \* sends attempted since the slot was last empty (saturating)
    stopCalls,     \* calls of Stop so far (saturating)
    stopResult,    \* outcome of the latest Stop call: "none", "returned", "panic"
    closes,        \* times the stop channel went from open to closed (saturating)
    sentAfterStop  \* events placed in C after Stop returned (saturating)

vars == <<ctor, args, allocated, interval, jitter, C, stop, pc, now, slept, got,
          firstAttempt, lastAttempt, attempts, stopCalls, stopResult, closes,
          sentAfterStop, prev, closedC, pair>>

\* State that no operation of the ticker changes.
fixedVars == <<closedC, pair>>

tickerVars == <<ctor, args, allocated, interval, jitter>>

stopVars == <<stop, stopCalls, stopResult, closes>>

attemptVars == <<firstAttempt, lastAttempt, attempts>>

Init ==
    /\ ctor = "idle"
    /\ args = <<0, 0>>
    /\ allocated = FALSE
    /\ interval = 0
    /\ jitter = 0
    /\ C = <<>>
    /\ stop = FALSE
    /\ pc = "none"
    /\ now = 0
    /\ slept = 0
    /\ got = <<>>
    /\ firstAttempt = 0
    /\ lastAttempt = 0
    /\ attempts = 0
    /\ stopCalls = 0
    /\ stopResult = "none"
    /\ closes = 0
    /\ sentAfterStop = 0
    /\ prev = <<>>
    /\ closedC = FALSE
    /\ pair = [made |-> FALSE, interval |-> 0, jitter |-> 0,
               clockA |-> 0, clockB |-> 0, seedA |-> 0, seedB |-> 0,
               rngA |-> 0, rngB |-> 0, delaysA |-> <<>>, delaysB |-> <<>>]

\* ---------------------------------------------------------------- NewTicker

NewTickerRejectsLax(i, j) == i < 0 \/ j < 0

\* The two panics of NewTicker.
NewTickerRejects(i, j) == i <= 0 \/ j <= 0

NewTicker(i, j) ==
    /\ ctor = "idle"
    /\ args' = <<i, j>>
    /\ IF NewTickerRejects(i, j)
       THEN /\ ctor' = "panic"
            /\ UNCHANGED <<allocated, interval, jitter, pc>>
       ELSE /\ ctor' = "ok"
            /\ allocated' = TRUE
            /\ interval' = i
            /\ jitter' = j
            /\ pc' = "sleep"
    /\ UNCHANGED <<C, stop, now, slept, got, attemptVars, stopCalls, stopResult,
                   closes, sentAfterStop, prev, fixedVars>>

\* -------------------------------------------------------------- Ticker.sleep

\* random.Int63n(jitter): the half-open range [0, jitter).
Int63n(n) == 0 .. (n - 1)

\* time.Sleep(d) returns immediately when d <= 0.
SleepTime(d) == IF d <= 0 THEN 0 ELSE d

SleepResumes ==
    /\ pc \in {"sleep", "done"}
    /\ \E delay \in Int63n(jitter) :
          LET d == SleepTime(Wrap(interval + delay)) IN
          /\ now + d <= MaxTime
          /\ now' = now + d
          /\ slept' = d
    /\ pc' = "select"
    /\ UNCHANGED <<tickerVars, prev, fixedVars,
                   C, got, attemptVars, stopVars, sentAfterStop>>

SleepInterruptible ==
    /\ pc = "sleep"
    /\ \E delay \in Int63n(jitter) :
          LET d == IF stop THEN 0 ELSE SleepTime(Wrap(interval + delay)) IN
          /\ now + d <= MaxTime
          /\ now' = now + d
          /\ slept' = d
    /\ pc' = "select"
    /\ UNCHANGED <<tickerVars, prev, fixedVars,
                   C, got, attemptVars, stopVars, sentAfterStop>>

Sleep ==
    /\ pc = "sleep"
    /\ \E delay \in Int63n(jitter) :
          LET d == SleepTime(Wrap(interval + delay)) IN
          /\ now + d <= MaxTime
          /\ now' = now + d
          /\ slept' = d
    /\ pc' = "select"
    /\ UNCHANGED <<tickerVars, prev, fixedVars,
                   C, got, attemptVars, stopVars, sentAfterStop>>

\* --------------------------------------------------------------- Ticker.tick

CanSendUnbounded(c) == TRUE

\* A send on the buffered channel can proceed when the buffer has room.
CanSend(c) == Len(c) < ChanCap

TickStopCloses ==
    /\ pc = "select"
    /\ stop
    /\ pc' = "done"
    /\ closedC' = TRUE
    /\ UNCHANGED <<tickerVars, prev, pair,
                   C, now, slept, got, attemptVars, stopVars, sentAfterStop>>

\* case <-t.stop: a receive on the closed stop channel can proceed.
TickStop ==
    /\ pc = "select"
    /\ stop
    /\ pc' = "done"
    /\ UNCHANGED <<tickerVars, prev, fixedVars,
                   C, now, slept, got, attemptVars, stopVars,
                   sentAfterStop>>

\* case c <- time.Now(): chosen among the cases that can proceed.
TickSend ==
    /\ pc = "select"
    /\ CanSend(C)
    /\ C' = Append(C, now)
    /\ firstAttempt' = IF C = <<>> THEN now ELSE firstAttempt
    /\ attempts' = IF C = <<>> THEN 1 ELSE Bump(attempts)
    /\ lastAttempt' = now
    /\ sentAfterStop' = IF stop THEN Bump(sentAfterStop) ELSE sentAfterStop
    /\ pc' = "sleep"
    /\ UNCHANGED <<tickerVars, prev, fixedVars,
                   now, slept, got, stopVars>>

TickDefaultBlocks == FALSE

TickDefaultOverwrites ==
    /\ pc = "select"
    /\ ~stop
    /\ ~CanSend(C)
    /\ C' = <<now>>
    /\ lastAttempt' = now
    /\ attempts' = Bump(attempts)
    /\ pc' = "sleep"
    /\ UNCHANGED <<tickerVars, prev, fixedVars,
                   now, slept, got, firstAttempt, stopVars,
                   sentAfterStop>>

TickDefaultClears ==
    /\ pc = "select"
    /\ ~stop
    /\ ~CanSend(C)
    /\ C' = <<>>
    /\ lastAttempt' = now
    /\ attempts' = Bump(attempts)
    /\ pc' = "sleep"
    /\ UNCHANGED <<tickerVars, prev, fixedVars,
                   now, slept, got, firstAttempt, stopVars, sentAfterStop>>

TickDefaultBreaks ==
    /\ pc = "select"
    /\ ~stop
    /\ ~CanSend(C)
    /\ lastAttempt' = now
    /\ attempts' = Bump(attempts)
    /\ pc' = "done"
    /\ UNCHANGED <<tickerVars, prev, fixedVars,
                   C, now, slept, got, firstAttempt, stopVars, sentAfterStop>>

TickDefaultIgnoresStop ==
    /\ pc = "select"
    /\ ~CanSend(C)
    /\ lastAttempt' = now
    /\ attempts' = Bump(attempts)
    /\ pc' = "sleep"
    /\ UNCHANGED <<tickerVars, prev, fixedVars,
                   C, now, slept, got, firstAttempt, stopVars, sentAfterStop>>

\* default: taken only when no other case can proceed; the event is dropped.
TickDefault ==
    /\ pc = "select"
    /\ ~stop
    /\ ~CanSend(C)
    /\ lastAttempt' = now
    /\ attempts' = Bump(attempts)
    /\ pc' = "sleep"
    /\ UNCHANGED <<tickerVars, prev, fixedVars,
                   C, now, slept, got, firstAttempt, stopVars,
                   sentAfterStop>>

\* --------------------------------------------------------------- Ticker.Stop

StopIdempotent ==
    /\ ctor = "ok"
    /\ stopCalls' = Bump(stopCalls)
    /\ stop' = TRUE
    /\ closes' = IF stop THEN closes ELSE Bump(closes)
    /\ stopResult' = "returned"
    /\ UNCHANGED <<tickerVars, prev, fixedVars,
                   C, pc, now, slept, got, attemptVars, sentAfterStop>>

StopHandshake ==
    /\ ctor = "ok"
    /\ pc = "select"
    /\ stopCalls' = Bump(stopCalls)
    /\ stop' = TRUE
    /\ closes' = IF stop THEN closes ELSE Bump(closes)
    /\ stopResult' = IF stop THEN "panic" ELSE "returned"
    /\ UNCHANGED <<tickerVars, prev, fixedVars,
                   C, pc, now, slept, got, attemptVars, sentAfterStop>>

StopDrains ==
    /\ ctor = "ok"
    /\ stopCalls' = Bump(stopCalls)
    /\ stop' = TRUE
    /\ closes' = IF stop THEN closes ELSE Bump(closes)
    /\ stopResult' = IF stop THEN "panic" ELSE "returned"
    /\ C' = <<>>
    /\ UNCHANGED <<tickerVars, prev, fixedVars,
                   pc, now, slept, got, attemptVars, sentAfterStop>>

\* close(t.stop): closing a closed channel panics and leaves it closed.  close
\* is atomic, so concurrent calls act one after the other.  A panic the caller
\* does not recover ends the program (the behaviour stutters from there); one
\* it recovers leaves the ticker running as before.
Stop ==
    /\ ctor = "ok"
    /\ stopCalls' = Bump(stopCalls)
    /\ stop' = TRUE
    /\ closes' = IF stop THEN closes ELSE Bump(closes)
    /\ stopResult' = IF stop THEN "panic" ELSE "returned"
    /\ UNCHANGED <<tickerVars, prev, fixedVars,
                   C, pc, now, slept, got, attemptVars, sentAfterStop>>

\* ------------------------------------------------------------------ consumer

RecvPeeks ==
    /\ ctor = "ok"
    /\ Len(C) > 0 \/ closedC
    /\ got' = IF Len(C) > 0 THEN <<Head(C)>> ELSE <<0>>
    /\ prev' = got
    /\ UNCHANGED <<tickerVars, fixedVars, C,
                   stop, pc, now, slept, attemptVars, stopCalls,
                   stopResult, closes, sentAfterStop>>

\* <-ticker.C: the consumer's blocking receive.  A receive on a closed and
\* empty channel returns the zero time at once.
Recv ==
    /\ ctor = "ok"
    /\ Len(C) > 0 \/ closedC
    /\ got' = IF Len(C) > 0 THEN <<Head(C)>> ELSE <<0>>
    /\ C' = IF Len(C) > 0 THEN Tail(C) ELSE C
    /\ prev' = got
    /\ UNCHANGED <<tickerVars, fixedVars,
                   stop, pc, now, slept, attemptVars, stopCalls,
                   stopResult, closes, sentAfterStop>>

\* ------------------------------------------------------------ specifications

Construct == \E i \in Intervals, j \in Jitters : NewTicker(i, j)

Next ==
    \/ Construct
    \/ Sleep
    \/ TickStop
    \/ TickSend
    \/ TickDefault
    \/ Stop
    \/ Recv

Spec == Init /\ [][Next]_vars

\* The ticker with a consumer that never receives and a caller that never
\* stops it; the goroutine is scheduled whenever it can run.
NextNoConsumer ==
    \/ Construct
    \/ Sleep
    \/ TickSend
    \/ TickDefault

SpecNoConsumer ==
    /\ Init
    /\ [][NextNoConsumer]_vars
    /\ WF_vars(Sleep)
    /\ WF_vars(TickSend)
    /\ WF_vars(TickDefault)

\* ------------------------------------------------------- two tickers at once

\* rand.New(rand.NewSource(seed)): the generator's state is a function of the
\* seed alone, and each draw is a function of the state (a linear congruential
\* generator stands for the generator of math/rand).
RngSeed(seed) == seed % 16

RngNext(x) == (5 * x + 3) % 16

\* random.Int63n(n) on the generator's state x.
RngInt63n(x, n) == (x \div 2) % n

\* Everything but the pair.
singleVars == <<ctor, args, allocated, interval, jitter, C, stop, pc, now, slept,
                got, firstAttempt, lastAttempt, attempts, stopCalls, stopResult,
                closes, sentAfterStop, prev, closedC>>

\* Two calls NewTicker(i, j), reading the clock at tA and then at tB; each
\* seeds its generator with its own reading of time.Now().UnixNano().
NewTickerPair(i, j, tA, tB) ==
    /\ ~pair.made
    /\ ~NewTickerRejects(i, j)
    /\ tA <= tB
    /\ pair' = [made |-> TRUE, interval |-> i, jitter |-> j,
                clockA |-> tA, clockB |-> tB, seedA |-> tA, seedB |-> tB,
                rngA |-> RngSeed(tA), rngB |-> RngSeed(tB),
                delaysA |-> <<>>, delaysB |-> <<>>]
    /\ UNCHANGED singleVars

ConstructPair ==
    \E i \in Intervals, j \in Jitters, tA \in 0 .. MaxClock, tB \in 0 .. MaxClock :
        NewTickerPair(i, j, tA, tB)

\* Ticker.sleep of the first ticker draws its next delay.
DrawA ==
    /\ pair.made
    /\ Len(pair.delaysA) < MaxDraws
    /\ LET x == RngNext(pair.rngA) IN
          pair' = [pair EXCEPT !.rngA = x,
                               !.delaysA = Append(@, RngInt63n(x, pair.jitter))]
    /\ UNCHANGED singleVars

\* Ticker.sleep of the second ticker draws its next delay.
DrawB ==
    /\ pair.made
    /\ Len(pair.delaysB) < MaxDraws
    /\ LET x == RngNext(pair.rngB) IN
          pair' = [pair EXCEPT !.rngB = x,
                               !.delaysB = Append(@, RngInt63n(x, pair.jitter))]
    /\ UNCHANGED singleVars

NextPair ==
    \/ ConstructPair
    \/ DrawA
    \/ DrawB

SpecPair == Init /\ [][NextPair]_vars

\* -------------------------------------------------------------------- claims

\* C1: in every reachable state the event stream holds at most one
\* undelivered event.
C1_AtMostOneUndelivered == Len(C) <= 1

\* The slot is full, a later event was dropped on it, and Stop was called.
C1_Witness == Len(C) = 1 /\ attempts >= 2 /\ stop /\ pc = "select"

\* C2: a wake of the background task with the stop flag set places no event
\* in the stream.
C2_StoppedWakeNeverDelivers ==
    [][(pc = "select" /\ stop /\ pc' # "select") => C' = C]_vars

\* C3: after Stop has returned, at most one further event is placed in the
\* stream.
C3_AtMostOneAfterStop == sentAfterStop <= 1

\* C4: once Stop has been called, the next wake of the background task
\* terminates it.
C4_StoppedWakeTerminates ==
    [][(pc = "select" /\ stop /\ pc' # "select") => pc' = "done"]_vars

\* C5: with no consumer and no Stop, every wake of the background task is
\* followed by the start of its next cycle: the delivery attempt never blocks.
C5_NeverBlockedOnDelivery == (pc = "select") ~> (pc = "sleep")

\* The task began another cycle after an attempt on a full slot.
C5_Witness ==
    pc = "sleep" /\ Len(C) = 1 /\ attempts >= 2 /\ got = <<>> /\ ~stop

\* C6 (as claimed): a read after several unread emission cycles observes
\* exactly one event, the most recent one the task attempted to emit.
C6_ReadsMostRecent ==
    [][Recv => (C' = <<>> /\ got' = <<lastAttempt>>)]_vars

\* C6 (amended): a read after several unread emission cycles observes exactly
\* one event, the earliest one attempted since the slot was last empty.
C6_ReadsEarliestPending ==
    [][Recv => (C' = <<>> /\ got' = <<firstAttempt>>)]_vars

\* The consumer has just read after two or more cycles at different times.
C6_Witness ==
    /\ C = <<>>
    /\ got = <<firstAttempt>>
    /\ attempts >= 2
    /\ firstAttempt < lastAttempt

\* C7: NewTicker with interval <= 0 or jitter <= 0 panics before anything is
\* allocated or started, and no event is ever observable.
C7_InvalidArgsPanicBeforeStart ==
    (ctor # "idle" /\ (args[1] <= 0 \/ args[2] <= 0)) =>
        /\ ctor = "panic"
        /\ ~allocated
        /\ pc = "none"
        /\ C = <<>>
        /\ got = <<>>

\* NewTicker panicked on a non-positive jitter alone.
C7_Witness == ctor = "panic" /\ args[1] > 0 /\ args[2] <= 0

\* C8: every sleep lasts interval + delay with 0 <= delay < jitter, so the
\* time between two consecutive wakes is in [interval, interval + jitter).
C8_WakeGapWithinBounds ==
    pc = "select" => (interval <= slept /\ slept < interval + jitter)

\* C9: a first Stop is enabled in every state of the background task and, in
\* one step, sets the flag and returns without moving the task.
C9_StopNeverBlocks ==
    (ctor = "ok" /\ ~stop) =>
        ENABLED (Stop /\ stop' /\ stopResult' = "returned" /\ pc' = pc)

\* Stop has returned while the task is still asleep with the slot full.
C9_Witness ==
    stopCalls = 1 /\ stopResult = "returned" /\ stop /\ pc = "sleep" /\ Len(C) = 1

\* C10: the first Stop sets the flag and returns; every later Stop ends in a
\* panic, and the flag has been set exactly once.
C10_SecondStopPanics ==
    /\ stopCalls = 1 => (stopResult = "returned" /\ stop /\ closes = 1)
    /\ stopCalls >= 2 => (stopResult = "panic" /\ stop /\ closes = 1)

\* Stop was called a second time while the task was still running.
C10_Witness == stopCalls = 2 /\ stopResult = "panic" /\ pc # "done"

\* C11: the consumer receives timestamps in the order they were produced:
\* each receive takes the event out of the stream and its timestamp is not
\* below the one received before.
C11_ReceivedInOrder ==
    [][(got' # got \/ prev' # prev \/ (Len(C) > 0 /\ pc' = pc /\ C' # C)) =>
          /\ Len(C) > 0
          /\ C' = Tail(C)
          /\ got' = <<Head(C)>>
          /\ prev' = got
          /\ (got # <<>> => got[1] <= got'[1])]_vars

\* The consumer has received two events, the second later than the first.
C11_Witness == prev # <<>> /\ got # <<>> /\ prev[1] < got[1]

\* C12: two tickers constructed at the same clock reading with the same
\* interval and jitter have different seeds and draw different delay sequences.
C12_SameClockPairDiffers ==
    (/\ pair.made
     /\ pair.clockA = pair.clockB
     /\ Len(pair.delaysA) = MaxDraws
     /\ Len(pair.delaysB) = MaxDraws) =>
        (pair.seedA # pair.seedB /\ pair.delaysA # pair.delaysB)

\* C13: the event stream is never closed, and once the task has terminated a
\* receive on the empty stream cannot complete.
C13_StreamNeverClosed ==
    /\ ~closedC
    /\ (pc = "done" /\ C = <<>>) => ~ENABLED Recv

\* The task has terminated, the consumer has drained the stream.
C13_Witness == pc = "done" /\ stop /\ C = <<>> /\ got # <<>>

\* C14: a delivery attempt on an occupied slot leaves the slot unchanged, and
\* the slot holds the older event, which is what a receive yields.
C14_DropKeepsOlder ==
    [][(pc = "select" /\ Len(C) >= ChanCap /\ pc' = "sleep") =>
          /\ C' = C
          /\ C' = <<firstAttempt'>>
          /\ lastAttempt' = now]_vars

\* A later event was dropped on the slot, which still holds the older one.
C14_Witness ==
    /\ pc = "sleep"
    /\ attempts >= 2
    /\ C = <<firstAttempt>>
    /\ firstAttempt < lastAttempt

\* C15: the task has terminated only if Stop has been called.
C15_TerminatedOnlyByStop == pc = "done" => (stop /\ stopCalls >= 1)

\* The task terminated after events were dropped on a consumer that never read.
C15_Witness == pc = "done" /\ stop /\ attempts >= 2 /\ got = <<>>

\* C16: once terminated the task stays terminated, the clock of its sleeps
\* stands still, no event is added to the stream, and the stop flag stays set.
C16_StoppedIsTerminal ==
    [][/\ pc = "done" => (pc' = "done" /\ now' = now /\ slept' = slept
                            /\ (C' = C \/ C' = Tail(C)))
       /\ stop => stop']_vars

\* The task terminated while the clock bound still allowed further sleeps.
C16_Witness == pc = "done" /\ stop /\ now + interval + jitter <= MaxTime

\* C17: the task terminates only from a wake, and every sleep, also one during
\* which Stop is called, lasts interval + delay in full.
C17_StopDoesNotCutSleep ==
    [][/\ (pc' = "done" /\ pc # "done") => pc = "select"
       /\ (pc = "sleep" /\ pc' # "sleep") =>
             /\ pc' = "select"
             /\ \E delay \in Int63n(jitter) :
                   now' = now + SleepTime(Wrap(interval + delay))
       /\ (stop' /\ ~stop) => (pc' = pc /\ now' = now)]_vars

\* Stop was called during the first sleep, which lasted its full length.
C17_Witness ==
    stop /\ pc = "select" /\ now = slept /\ slept >= interval /\ slept > 0

\* C18: a wake with the stop flag set and the slot occupied terminates the
\* task.
C18_StoppedFullWakeTerminates ==
    [][(pc = "select" /\ stop /\ Len(C) >= ChanCap /\ pc' # "select") =>
          pc' = "done"]_vars

\* The task terminated on a wake that found the slot occupied.
C18_Witness == pc = "done" /\ Len(C) = 1

\* C19: Stop leaves the slot, interval and jitter unchanged, and an event
\* pending when the flag is set stays receivable, also after termination.
C19_StopKeepsPendingEvent ==
    /\ [][(stopCalls' # stopCalls \/ stop' # stop \/ stopResult' # stopResult) =>
             (C' = C /\ interval' = interval /\ jitter' = jitter
                /\ got' = got /\ pc' = pc)]_vars
    /\ []((stop /\ Len(C) > 0) =>
             ENABLED (Recv /\ got' = <<firstAttempt>> /\ C' = <<>>))

\* The task has terminated and the event placed before Stop is still pending.
C19_Witness == pc = "done" /\ Len(C) = 1 /\ sentAfterStop = 0 /\ got = <<>>

====
